---- MODULE Spec2Model ----
(***************************************************************************)
(* Verification model of market-news-mail: the content-fingerprint ledger  *)
(* (src/src/data/hash_database_manager.py), the storage fingerprint        *)
(* (src/database_manager.py), the batch pipeline process_rss_awards        *)
(* (src/src/core/processor.py), the rule engine (src/filter_engine.py)     *)
(* and the scheduler (src/src/core/scheduler.py).                          *)
(*                                                                         *)
(* Text is a sequence of one-character strings.  Python's None is the      *)
(* one-element sequence None (its element is no character); a key a dict   *)
(* does not hold is a field outside the DOMAIN of the article.             *)
(***************************************************************************)
EXTENDS Integers, Sequences, FiniteSets, TLC

VARIABLES
    ledger,            \* table processed_hashes: content_hash -> row
    clock,             \* the value datetime.now() returns
    pc,                \* position of process_rss_awards
    all_articles,      \* process_rss_awards: all_articles
    filtered_articles, \* process_rss_awards: filtered_articles
    new_articles,      \* process_rss_awards: new_articles
    financial_data,    \* process_rss_awards: financial_data
    results,           \* process_rss_awards: results
    fetch_stats,       \* process_rss_awards: fetch_stats, of which 'errors' is read
    crashed_at,        \* the position at which the process of the run was killed
    dedup_read_ok,     \* history: did the ledger read of this run's DEDUP succeed
    degraded,          \* history: a ledger read or a COMMIT failed or was cut short
    ledger0,           \* history: the ledger when the run started
    lookups,           \* history: the companies looked up in Step 4, each with the
                       \* results of the calls of get_company_financial_data
    notified,          \* history: content_hash -> number of delivered alerts holding it
    runs,              \* history: number of runs started
    last,              \* the last call of an interface and what it returned
    main,              \* position and locals of hash_database_manager.main
    articles_table,    \* table articles of DatabaseManager: content_hash -> row
    running,           \* RSSScheduler.running
    last_heartbeat,    \* RSSScheduler.last_heartbeat
    wall_clock,        \* the wall clock of the scheduler's process, in minutes
    next_run_time,     \* next_run_time of the interval job
    suspended,         \* history: the system was suspended since the heartbeat
                       \* thread last went through its loop
    thread             \* the threads of the scheduler's process: position and locals

vars == <<ledger, clock, pc, all_articles, filtered_articles, new_articles,
          financial_data, results, fetch_stats, crashed_at, dedup_read_ok, degraded, ledger0,
          lookups, notified, runs, last, main, articles_table, running, last_heartbeat,
          wall_clock, next_run_time, suspended, thread>>

schedVars == <<running, last_heartbeat, wall_clock, next_run_time, suspended, thread>>

extVars == <<articles_table, schedVars>>

runVars == <<pc, all_articles, filtered_articles, new_articles, financial_data,
             results, fetch_stats, crashed_at, dedup_read_ok, degraded, ledger0, lookups,
             notified, runs>>

----------------------------------------------------------------------------
(* Bounds of the model *)

\* the clock runs over 0..MaxTime
MaxTime == 1
\* longest list of articles handed to one call
MaxBatch == 2
\* number of pipeline runs that are followed
MaxRuns == 2
\* largest retention window handed to cleanup_old_hashes, in clock units
MaxKeep == 1
\* stands for limit=10000 of filter_new_articles, scaled to the model's ledger
FilterLimit == 1
\* max_financial_requests of process_rss_awards, scaled to the model's batches
max_financial_requests == 1
\* most conditions of a rule handed to _evaluate_rule
MaxConditions == 3
\* longest list of rules handed to apply_rules
MaxRules == 2
\* the wall clock of the scheduler's process runs over 0..MaxNow minutes
MaxNow == 30

\* link[:100]
StableLen == 100
\* title[:200]
TitleLen == 200
\* cleaned_title[:50]
CompanyLen == 50
\* article.get('title', 'no-title')[:50]
TitlePartLen == 50

----------------------------------------------------------------------------
(* Text *)

None == <<"None">>

Min(a, b) == IF a < b THEN a ELSE b

\* s[:n]
Take(s, n) == SubSeq(s, 1, Min(n, Len(s)))

IsSpace(c) == c \in {" ", "\t", "\n"}

RECURSIVE LStrip(_)
LStrip(s) ==
    IF s = <<>> THEN s
    ELSE IF IsSpace(Head(s)) THEN LStrip(Tail(s)) ELSE s

RECURSIVE RStrip(_)
RStrip(s) ==
    IF s = <<>> THEN s
    ELSE IF IsSpace(s[Len(s)]) THEN RStrip(SubSeq(s, 1, Len(s) - 1)) ELSE s

\* str.strip()
Strip(s) == RStrip(LStrip(s))

\* dict.get(key, default)
Get(article, key, default) ==
    IF key \in DOMAIN article THEN article[key] ELSE default

\* hashlib.md5(content.encode('utf-8')).hexdigest(): a digest, taken to be free of
\* collisions: equal contents give equal digests, different contents different ones
Md5(content) == <<"md5", content>>

----------------------------------------------------------------------------
(* Fingerprints *)

\* generate_content_hash raises AttributeError: None has no strip()
HashRaises(article) ==
    \/ Get(article, "title", <<>>) = None
    \/ Get(article, "summary", <<>>) = None

\* the digest taken over the whole link
hash_of_whole_link(article) ==
    Md5(Strip(Get(article, "title", <<>>)) \o <<"|">>
        \o Strip(Get(article, "summary", <<>>)) \o <<"|">>
        \o Get(article, "link", <<>>))

\* HashDatabaseManager.generate_content_hash, for an article it does not raise on
generate_content_hash(article) ==
    LET title == Strip(Get(article, "title", <<>>))
        summary == Strip(Get(article, "summary", <<>>))
        link == Get(article, "link", <<>>)
        stable_link == IF link # None /\ link # <<>> THEN Take(link, StableLen) ELSE <<>>
        content == title \o <<"|">> \o summary \o <<"|">> \o stable_link
    IN  Md5(content)

InternalScheme == <<"i", "n", "t", "e", "r", "n", "a", "l", ":", "/", "/">>

\* str.startswith(prefix)
StartsWith(s, prefix) ==
    /\ Len(s) >= Len(prefix)
    /\ SubSeq(s, 1, Len(prefix)) = prefix

\* DatabaseManager._generate_content_hash
_generate_content_hash(title, summary, link) ==
    LET stable_link == IF link # None /\ link # <<>> /\ ~StartsWith(link, InternalScheme)
                       THEN Take(link, StableLen) ELSE <<>>
        content == Strip(title) \o <<"|">> \o Strip(summary) \o <<"|">> \o stable_link
    IN  Md5(content)

Unknown == <<"U", "n", "k", "n", "o", "w", "n">>

\* HashDatabaseManager._extract_company_name, for the titles of this model: they
\* hold neither "Limited" nor "Ltd" nor one of the separators, so that no pattern
\* matches and the last return statement decides
_extract_company_name(title) ==
    IF title = None \/ title = <<>> THEN Unknown
    ELSE Strip(Take(Strip(title), CompanyLen))

----------------------------------------------------------------------------
(* The filter engine *)

UpperCase == <<"A", "B", "C", "D", "E", "F", "G", "H", "I", "J", "K", "L", "M",
               "N", "O", "P", "Q", "R", "S", "T", "U", "V", "W", "X", "Y", "Z">>
LowerCase == <<"a", "b", "c", "d", "e", "f", "g", "h", "i", "j", "k", "l", "m",
               "n", "o", "p", "q", "r", "s", "t", "u", "v", "w", "x", "y", "z">>

LowerChar(c) ==
    IF \E i \in DOMAIN UpperCase : UpperCase[i] = c
    THEN LowerCase[CHOOSE i \in DOMAIN UpperCase : UpperCase[i] = c]
    ELSE c

\* str.lower()
Lower(s) == [i \in DOMAIN s |-> LowerChar(s[i])]

\* sub in s
Contains(s, sub) ==
    \E i \in 0..(Len(s) - Len(sub)) : SubSeq(s, i + 1, i + Len(sub)) = sub

\* str.endswith(suffix)
EndsWith(s, suffix) ==
    /\ Len(s) >= Len(suffix)
    /\ SubSeq(s, Len(s) - Len(suffix) + 1, Len(s)) = suffix

\* re.compile raises re.error.  The patterns of this model are literal text, but
\* for "(", which opens a group that nothing closes
RegexError(pattern) == \E i \in DOMAIN pattern : pattern[i] = "("

\* FilterEngine._compile_regex: the compiled pattern, or ValueError raised
_compile_regex(pattern, flags) ==
    IF RegexError(pattern) THEN [raised |-> TRUE]
    ELSE [raised |-> FALSE, pattern |-> pattern, flags |-> flags]

\* the pattern as the regex compiler reads it: a backslash and the character after it
\* are one item, every other character stands for itself
RECURSIVE Tokens(_)
Tokens(pattern) ==
    IF pattern = <<>> THEN <<>>
    ELSE IF pattern[1] = "\\" /\ Len(pattern) >= 2
         THEN <<[escape |-> TRUE, char |-> pattern[2]]>>
              \o Tokens(SubSeq(pattern, 3, Len(pattern)))
         ELSE <<[escape |-> FALSE, char |-> pattern[1]]>> \o Tokens(Tail(pattern))

\* one item of a pattern against one character: \s is a blank, \S is any other
\* character, and a literal is itself, in either case under IGNORECASE
TokenMatches(token, c, flags) ==
    IF token.escape /\ token.char = "s" THEN IsSpace(c)
    ELSE IF token.escape /\ token.char = "S" THEN ~IsSpace(c)
    ELSE IF flags = "IGNORECASE" THEN LowerChar(c) = LowerChar(token.char)
    ELSE c = token.char

\* pattern.search(field_str): a match of the whole pattern somewhere in field_str
Search(compiled, field_str) ==
    LET tokens == Tokens(compiled.pattern)
    IN  \E offset \in 0..(Len(field_str) - Len(tokens)) :
           \A k \in DOMAIN tokens :
              TokenMatches(tokens[k], field_str[offset + k], compiled.flags)

\* the try block of FilterEngine._match_condition, for text values: what it returns,
\* or that it raised
MatchBody(field_str, condition_value, condition) ==
    CASE condition.match_type = "contains" ->
            [raised |-> FALSE, value |-> Contains(field_str, condition_value)]
      [] condition.match_type = "exact" ->
            [raised |-> FALSE, value |-> (field_str = condition_value)]
      [] condition.match_type = "regex" ->
            LET flags == IF condition.case_sensitive THEN "0" ELSE "IGNORECASE"
                pattern == _compile_regex(condition_value, flags)
            IN  IF pattern.raised THEN [raised |-> TRUE]
                ELSE [raised |-> FALSE, value |-> Search(pattern, field_str)]
      [] condition.match_type = "starts_with" ->
            [raised |-> FALSE, value |-> StartsWith(field_str, condition_value)]
      [] condition.match_type = "ends_with" ->
            [raised |-> FALSE, value |-> EndsWith(field_str, condition_value)]
      [] OTHER -> [raised |-> FALSE, value |-> FALSE]

\* FilterEngine._match_condition from its try statement on: "except Exception"
\* catches what the block raises, and False is returned
MatchTry(field_str, condition_value, condition) ==
    LET r == MatchBody(field_str, condition_value, condition)
    IN  IF r.raised THEN [raised |-> FALSE, value |-> FALSE] ELSE r

\* FilterEngine._match_condition, for text values: what it returns, or that it raised
MatchOutcome(article, condition) ==
    LET field_value == Get(article, condition.field, <<>>)
    IN  IF field_value = None THEN [raised |-> FALSE, value |-> FALSE]
        ELSE LET field_str == IF condition.case_sensitive THEN field_value
                              ELSE Lower(field_value)
                 condition_value == IF condition.case_sensitive THEN condition.value
                                    ELSE Lower(condition.value)
             IN  MatchTry(field_str, condition_value, condition)

\* FilterEngine._match_condition, where it returns
_match_condition(article, condition) == MatchOutcome(article, condition).value

\* a fold that takes every later combinator for AND
RECURSIVE FoldConjunction(_, _, _)
FoldConjunction(rs, i, final_result) ==
    IF i > Len(rs) THEN final_result
    ELSE FoldConjunction(rs, i + 1, final_result /\ rs[i][1])

\* FilterEngine._evaluate_logical_expression from its i-th result on
\* a fold that takes a later NOT for "and not"
RECURSIVE FoldWithNot(_, _, _)
FoldWithNot(rs, i, final_result) ==
    IF i > Len(rs) THEN final_result
    ELSE FoldWithNot(rs, i + 1,
            CASE rs[i][2] = "and" -> final_result /\ rs[i][1]
              [] rs[i][2] = "or" -> final_result \/ rs[i][1]
              [] OTHER -> final_result /\ rs[i][1])

RECURSIVE FoldResults(_, _, _)
FoldResults(rs, i, final_result) ==
    IF i > Len(rs) THEN final_result
    ELSE FoldResults(rs, i + 1,
            CASE rs[i][2] = "and" -> final_result /\ rs[i][1]
              [] rs[i][2] = "or" -> final_result \/ rs[i][1]
              [] OTHER -> final_result)

\* FilterEngine._evaluate_logical_expression
_evaluate_logical_expression(rs) ==
    IF rs = <<>> THEN FALSE ELSE FoldResults(rs, 2, rs[1][1])

\* FilterEngine._evaluate_rule
_evaluate_rule(article, rule) ==
    IF ~rule.is_active \/ rule.conditions = <<>> THEN FALSE
    ELSE _evaluate_logical_expression(
            [i \in DOMAIN rule.conditions |->
                LET condition == rule.conditions[i]
                    match_result == _match_condition(article, condition)
                IN  <<IF condition.operator = "not" THEN ~match_result ELSE match_result,
                      condition.operator>>])

\* article.copy() with matched_rule and filter_priority set
Annotated(article, rule) ==
    [k \in DOMAIN article \cup {"matched_rule", "filter_priority"} |->
        CASE k = "matched_rule" -> rule.name
          [] k = "filter_priority" -> rule.priority
          [] OTHER -> article[k]]

\* FilterEngine.apply_rule from its i-th article on
RECURSIVE ApplyLoop(_, _, _)
ApplyLoop(articles, rule, i) ==
    IF i > Len(articles) THEN <<>>
    ELSE (IF _evaluate_rule(articles[i], rule)
          THEN <<Annotated(articles[i], rule)>> ELSE <<>>)
         \o ApplyLoop(articles, rule, i + 1)

\* FilterEngine.apply_rule
apply_rule(articles, rule) ==
    IF ~rule.is_active THEN articles ELSE ApplyLoop(articles, rule, 1)

\* a sort that is not stable: r goes in front of the rules of its priority
InsertBeforeEqual(sorted_rules, r) ==
    LET ahead == Cardinality({i \in DOMAIN sorted_rules :
                                 sorted_rules[i].priority > r.priority})
    IN  SubSeq(sorted_rules, 1, ahead) \o <<r>>
        \o SubSeq(sorted_rules, ahead + 1, Len(sorted_rules))

\* the key of sorted(..., key=lambda x: x.priority, reverse=True): r goes behind
\* every rule of its priority or a higher one (the sort is stable)
InsertByPriority(sorted_rules, r) ==
    LET ahead == Cardinality({i \in DOMAIN sorted_rules :
                                 sorted_rules[i].priority >= r.priority})
    IN  SubSeq(sorted_rules, 1, ahead) \o <<r>>
        \o SubSeq(sorted_rules, ahead + 1, Len(sorted_rules))

\* sorted([r for r in rules if r.is_active], key=..., reverse=True) of rules[1..n]
RECURSIVE SortedRules(_, _)
SortedRules(rules, n) ==
    IF n = 0 THEN <<>>
    ELSE IF rules[n].is_active
         THEN InsertByPriority(SortedRules(rules, n - 1), rules[n])
         ELSE SortedRules(rules, n - 1)

\* an inner loop that keeps no set of links
AddAllMatches(all_matches, matches, i) == all_matches \o matches

\* an inner loop that takes no record without a link for seen
RECURSIVE AddUnseenLinked(_, _, _)
AddUnseenLinked(all_matches, matches, i) ==
    IF i > Len(matches) THEN all_matches
    ELSE LET article_links_seen ==
                 {Get(all_matches[k], "link", None) : k \in DOMAIN all_matches}
                 \ {None}
         IN  AddUnseenLinked(IF Get(matches[i], "link", None) \notin article_links_seen
                             THEN Append(all_matches, matches[i]) ELSE all_matches,
                             matches, i + 1)

\* the inner loop of apply_rules from the i-th match on: all_matches afterwards
RECURSIVE AddUnseen(_, _, _)
AddUnseen(all_matches, matches, i) ==
    IF i > Len(matches) THEN all_matches
    ELSE LET article_links_seen ==
                 {Get(all_matches[k], "link", None) : k \in DOMAIN all_matches}
         IN  AddUnseen(IF Get(matches[i], "link", None) \notin article_links_seen
                       THEN Append(all_matches, matches[i]) ELSE all_matches,
                       matches, i + 1)

\* the loop of apply_rules over sorted_rules from the i-th rule on
RECURSIVE RulesLoop(_, _, _, _)
RulesLoop(articles, sorted_rules, i, all_matches) ==
    IF i > Len(sorted_rules) THEN all_matches
    ELSE RulesLoop(articles, sorted_rules, i + 1,
                   AddUnseen(all_matches, apply_rule(articles, sorted_rules[i]), 1))

\* apply_rules without its first statement
apply_sorted_rules(articles, rules) ==
    RulesLoop(articles, SortedRules(rules, Len(rules)), 1, <<>>)

\* FilterEngine.apply_rules
apply_rules(articles, rules) ==
    IF rules = <<>> THEN articles
    ELSE RulesLoop(articles, SortedRules(rules, Len(rules)), 1, <<>>)

Bagging == <<"b", "a", "g", "g", "i", "n", "g">>

AwardWord == <<"a", "w", "a", "r", "d">>

Condition(field, value, match_type, case_sensitive, operator) ==
    [field |-> field, value |-> value, match_type |-> match_type,
     case_sensitive |-> case_sensitive, operator |-> operator]

\* PresetFilters.awards_bagging_filter
awards_bagging_filter ==
    [name |-> "Awards/Bagging",
     conditions |-> <<Condition("title", AwardWord, "contains", FALSE, "or"),
                      Condition("title", Bagging, "contains", FALSE, "or"),
                      Condition("summary", AwardWord, "contains", FALSE, "or"),
                      Condition("summary", Bagging, "contains", FALSE, "or"),
                      Condition("link", AwardWord, "contains", FALSE, "or"),
                      Condition("link", Bagging, "contains", FALSE, "or")>>,
     priority |-> 5,
     is_active |-> TRUE]

----------------------------------------------------------------------------
(* The ledger: table processed_hashes, content_hash its primary key *)

EmptyLedger == [h \in {} |-> 0]

Row(now, title, company_name, link) ==
    [processed_at |-> now, title |-> title, company_name |-> company_name,
     article_link |-> link]

\* the statement acknowledged without a row written
InsertIgnored(led, h, row) == [ok |-> TRUE, ledger |-> led]

\* a plain INSERT: the primary key rejects a second row of one content_hash
InsertOnly(led, h, row) ==
    IF h \in DOMAIN led THEN [ok |-> FALSE, ledger |-> led]
    ELSE [ok |-> TRUE, ledger |-> [g \in DOMAIN led \cup {h} |->
                                     IF g = h THEN row ELSE led[g]]]

\* the table rewritten to hold the new row only
InsertReplacingAll(led, h, row) == [ok |-> TRUE, ledger |-> [g \in {h} |-> row]]

\* INSERT OR REPLACE INTO processed_hashes, the statement having executed
InsertOrReplace(led, h, row) ==
    [ok |-> TRUE,
     ledger |-> [g \in DOMAIN led \cup {h} |-> IF g = h THEN row ELSE led[g]]]

\* SELECT content_hash ... ORDER BY processed_at DESC LIMIT limit: the sets of rows
\* the statement may return; rows of equal processed_at come in any order
RecentSets(led, limit) ==
    {S \in SUBSET DOMAIN led :
        /\ Cardinality(S) = Min(limit, Cardinality(DOMAIN led))
        /\ \A h \in S : \A g \in (DOMAIN led) \ S :
              led[h].processed_at >= led[g].processed_at}

\* the read without its LIMIT
get_all_hashes(led, limit, read_ok) == IF read_ok THEN {DOMAIN led} ELSE {{}}

\* a read that fails closed: a failed read reports every fingerprint of the ledger
get_hashes_closed(led, limit, read_ok) ==
    IF read_ok THEN RecentSets(led, limit) ELSE {DOMAIN led}

\* HashDatabaseManager.get_processed_hashes: the sets it may return; a failed read
\* returns the empty set
get_processed_hashes(led, limit, read_ok) ==
    IF read_ok THEN RecentSets(led, limit) ELSE {{}}

\* HashDatabaseManager.is_hash_processed
is_hash_processed(led, h, read_ok) ==
    IF read_ok THEN h \in DOMAIN led ELSE FALSE

\* a filter that consults nothing
filter_nothing(articles, processed_hashes) == [raised |-> FALSE, value |-> articles]

\* HashDatabaseManager.filter_new_articles, processed_hashes being what
\* get_processed_hashes returned
filter_new_articles(articles, processed_hashes) ==
    IF articles = <<>> THEN [raised |-> FALSE, value |-> <<>>]
    ELSE IF \E i \in 1..Len(articles) : HashRaises(articles[i])
         THEN [raised |-> TRUE, value |-> <<>>]
         ELSE [raised |-> FALSE,
               value |-> SelectSeq(articles,
                           LAMBDA a : generate_content_hash(a) \notin processed_hashes)]

\* HashDatabaseManager.mark_article_processed; fault is "none", "connect"
\* (duckdb.connect raises) or "execute" (the statement raises)
mark_article_processed(led, now, article, company_name, fault) ==
    IF HashRaises(article) \/ fault # "none" THEN [ret |-> FALSE, ledger |-> led]
    ELSE LET title == Get(article, "title", <<>>)
             name == IF company_name # None /\ company_name # <<>> THEN company_name
                     ELSE _extract_company_name(title)
             w == InsertOrReplace(led, generate_content_hash(article),
                                  Row(now, Take(title, TitleLen), name,
                                      Get(article, "link", <<>>)))
         IN  [ret |-> w.ok, ledger |-> w.ledger]

\* the loop of mark_articles_processed from its i-th article on; plan[i].tick is the
\* time that passes before the i-th write, plan[i].fail says that its statement raises
RECURSIVE MarkLoop(_, _, _, _, _, _, _)
MarkLoop(led, now, articles, company_names, plan, i, processed_count) ==
    IF i > Len(articles) THEN [ret |-> processed_count, ledger |-> led, clock |-> now]
    ELSE IF HashRaises(articles[i])
         THEN [ret |-> processed_count, ledger |-> led, clock |-> now]
         ELSE LET article == articles[i]
                  title == Get(article, "title", <<>>)
                  company_name == Get(company_names, title, _extract_company_name(title))
                  t == now + plan[i].tick
                  w == InsertOrReplace(led, generate_content_hash(article),
                                       Row(t, Take(title, TitleLen), company_name,
                                           Get(article, "link", <<>>)))
              IN  IF plan[i].fail \/ ~w.ok
                  THEN MarkLoop(led, t, articles, company_names, plan, i + 1,
                                processed_count)
                  ELSE MarkLoop(w.ledger, t, articles, company_names, plan, i + 1,
                                processed_count + 1)

\* HashDatabaseManager.mark_articles_processed
mark_articles_processed(led, now, articles, company_names, connect_ok, plan) ==
    IF articles = <<>> \/ ~connect_ok THEN [ret |-> 0, ledger |-> led, clock |-> now]
    ELSE MarkLoop(led, now, articles, company_names, plan, 1, 0)

\* the rows DELETE FROM processed_hashes WHERE processed_at < cutoff_date removes
OldHashes(led, cutoff_date) == {h \in DOMAIN led : led[h].processed_at < cutoff_date}

\* HashDatabaseManager.cleanup_old_hashes.  The DELETE runs and is committed; then
\* "result.fetchone()[0] if result.fetchone() else 0" fetches twice: whether the
\* first fetch gives the count row or nothing, the count is never read, and the
\* method returns 0 (through the handler when the second fetch gave None)
cleanup_old_hashes(led, now, days_to_keep, connect_ok) ==
    IF ~connect_ok THEN [ret |-> 0, ledger |-> led]
    ELSE LET cutoff_date == now - days_to_keep
             gone == OldHashes(led, cutoff_date)
         IN  [ret |-> 0, ledger |-> [h \in (DOMAIN led) \ gone |-> led[h]]]

\* HashDatabaseManager.reset_database
reset_database(led, connect_ok) ==
    IF connect_ok THEN [raised |-> FALSE, ledger |-> EmptyLedger]
    ELSE [raised |-> TRUE, ledger |-> led]

\* HashDatabaseManager.get_processing_stats: the total and the latest processed_at
\* (-1 stands for None); the two window counts are reads of the same kind
get_processing_stats(led, read_ok) ==
    IF ~read_ok \/ DOMAIN led = {}
    THEN [total_processed |-> IF read_ok THEN Cardinality(DOMAIN led) ELSE 0,
          last_processed_at |-> -1]
    ELSE [total_processed |-> Cardinality(DOMAIN led),
          last_processed_at |->
              CHOOSE t \in {led[h].processed_at : h \in DOMAIN led} :
                  \A h \in DOMAIN led : led[h].processed_at <= t]

----------------------------------------------------------------------------
(* The articles of the model *)

T1 == <<"A", " ">> \o AwardWord
T1sp == <<" ">> \o T1 \o <<" ">>
T2 == <<"B", " ", "A", "W", "A", "R", "D">>
T3 == <<"C", " ", "n", "e", "w", "s">>
S1 == <<"s">>
Prefix == [i \in 1..StableLen |-> "p"]
L1x == Prefix \o <<"x">>
L1y == Prefix \o <<"y">>
L2 == <<"h", "/", "2">>
L3 == <<"h", "/", "3">>

A1 == [title |-> T1, summary |-> S1, link |-> L1x]
\* A1 with blanks around the title and a link that differs after its 100th character
A1v == [title |-> T1sp, summary |-> S1, link |-> L1y]
A2 == [title |-> T2, summary |-> <<>>, link |-> L2]
\* matches no condition of the Awards/Bagging preset
A3 == [title |-> T3, summary |-> S1, link |-> L3]
\* empty strings throughout
AEmpty == [title |-> <<>>, summary |-> <<>>, link |-> <<>>]
\* a dict without the key link, its title a blank
ANoLink == [title |-> <<" ">>, summary |-> <<>>]
\* a dict whose title is None
ANone == [title |-> None, summary |-> S1, link |-> L2]

\* the rows of the table articles, as DatabaseManager.search_articles returns them:
\* of a row the pipeline reads title, summary and link
DbArticles == {A1, A2, A3}

\* the table articles holds no two rows of one link or of one content_hash
DbBatches ==
    {b \in UNION {[1..n -> DbArticles] : n \in 0..MaxBatch} :
        \A i, j \in DOMAIN b :
            i # j => /\ b[i].link # b[j].link
                     /\ _generate_content_hash(b[i].title, b[i].summary, b[i].link)
                        # _generate_content_hash(b[j].title, b[j].summary, b[j].link)}

\* the articles handed to the ledger's interface
ApiArticles == {A1, A1v, AEmpty, ANoLink, ANone}

ApiBatches == UNION {[1..n -> ApiArticles] : n \in 0..MaxBatch}

Plans(n) == [1..n -> [tick : 0..1, fail : BOOLEAN]]

Idle == [op |-> "none"]

MainIdle == [pc |-> "idle"]

----------------------------------------------------------------------------
(* Calls of the ledger's interface, one at a time: a call leaves what it was  *)
(* handed and what it returned in last, and the caller takes it (LReturn)     *)
(* before the next call                                                       *)

\* time passes between two calls; the time that passes inside a call is the tick
\* of its plan (the clock is read by the writes and by cleanup_old_hashes only)
Tick ==
    /\ clock < MaxTime
    /\ last.op = "none" /\ main.pc = "idle" /\ pc \in {"idle", "done", "crashed"}
    /\ clock' = clock + 1
    /\ UNCHANGED <<ledger, runVars, last, main>>
    /\ UNCHANGED extVars

LMarkArticle ==
    /\ main.pc = "idle"
    /\ last.op = "none"
    /\ \E article \in ApiArticles, company_name \in {None},
          fault \in {"none", "connect", "execute"} :
          LET r == mark_article_processed(ledger, clock, article, company_name, fault)
          IN  /\ ledger' = r.ledger
              /\ last' = [op |-> "mark", article |-> article,
                          company_name |-> company_name, fault |-> fault,
                          existed |-> (~HashRaises(article)
                                       /\ generate_content_hash(article) \in DOMAIN ledger),
                          ret |-> r.ret]
    /\ UNCHANGED <<clock, runVars, main>>
    /\ UNCHANGED extVars

LMarkArticles ==
    /\ main.pc = "idle"
    /\ last.op = "none"
    /\ \E articles \in ApiBatches, connect_ok \in BOOLEAN :
          \E plan \in Plans(IF connect_ok THEN Len(articles) ELSE 0) :
             LET r == mark_articles_processed(ledger, clock, articles, <<>>,
                                              connect_ok, plan)
             IN  /\ r.clock <= MaxTime
                 /\ ledger' = r.ledger
                 /\ clock' = r.clock
                 /\ last' = [op |-> "mark_many", articles |-> articles,
                             connect_ok |-> connect_ok,
                             failed |-> {i \in DOMAIN plan : plan[i].fail},
                             ret |-> r.ret]
    /\ UNCHANGED <<runVars, main>>
    /\ UNCHANGED extVars

LFilterNew ==
    /\ main.pc = "idle"
    /\ last.op = "none"
    /\ \E articles \in ApiBatches, read_ok \in BOOLEAN :
          \E processed_hashes \in get_processed_hashes(ledger, FilterLimit, read_ok) :
             last' = [op |-> "filter_new", articles |-> articles, read_ok |-> read_ok,
                      ret |-> filter_new_articles(articles, processed_hashes)]
    /\ UNCHANGED <<ledger, clock, runVars, main>>
    /\ UNCHANGED extVars

LIsProcessed ==
    /\ main.pc = "idle"
    /\ last.op = "none"
    /\ \E article \in ApiArticles, read_ok \in BOOLEAN :
          /\ ~HashRaises(article)
          /\ last' = [op |-> "is_processed", article |-> article,
                      ret |-> is_hash_processed(ledger, generate_content_hash(article),
                                                read_ok)]
    /\ UNCHANGED <<ledger, clock, runVars, main>>
    /\ UNCHANGED extVars

LStats ==
    /\ main.pc = "idle"
    /\ last.op = "none"
    /\ \E read_ok \in BOOLEAN :
          last' = [op |-> "stats", ret |-> get_processing_stats(ledger, read_ok)]
    /\ UNCHANGED <<ledger, clock, runVars, main>>
    /\ UNCHANGED extVars

LCleanup ==
    /\ main.pc = "idle"
    /\ last.op = "none"
    /\ \E days_to_keep \in 0..MaxKeep, connect_ok \in BOOLEAN :
          LET r == cleanup_old_hashes(ledger, clock, days_to_keep, connect_ok)
          IN  /\ ledger' = r.ledger
              /\ last' = [op |-> "cleanup", days_to_keep |-> days_to_keep,
                          connect_ok |-> connect_ok, ret |-> r.ret]
    /\ UNCHANGED <<clock, runVars, main>>
    /\ UNCHANGED extVars

LReset ==
    /\ main.pc = "idle"
    /\ last.op = "none"
    /\ \E connect_ok \in BOOLEAN :
          LET r == reset_database(ledger, connect_ok)
          IN  /\ ledger' = r.ledger
              /\ last' = [op |-> "reset", raised |-> r.raised]
    /\ UNCHANGED <<clock, runVars, main>>
    /\ UNCHANGED extVars

----------------------------------------------------------------------------
(* hash_database_manager.main, its test_articles being any batch *)

\* new_articles = hash_db.filter_new_articles(test_articles)
MainFilter ==
    /\ main.pc = "idle"
    /\ last.op = "none"
    /\ \E test_articles \in ApiBatches, read_ok \in BOOLEAN :
          \E processed_hashes \in get_processed_hashes(ledger, FilterLimit, read_ok) :
             LET r == filter_new_articles(test_articles, processed_hashes)
             IN  main' = IF r.raised THEN [pc |-> "exit"]
                         ELSE [pc |-> "filtered", test_articles |-> test_articles,
                               new_articles |-> r.value]
    /\ UNCHANGED <<ledger, clock, runVars, last>>
    /\ UNCHANGED extVars

\* hash_db.mark_articles_processed(new_articles)
MainMark ==
    /\ main.pc = "filtered"
    /\ \E connect_ok \in BOOLEAN :
          \E plan \in Plans(IF connect_ok THEN Len(main.new_articles) ELSE 0) :
             LET r == mark_articles_processed(ledger, clock, main.new_articles, <<>>,
                                              connect_ok, plan)
             IN  /\ r.clock <= MaxTime
                 /\ ledger' = r.ledger
                 /\ clock' = r.clock
                 /\ main' = [main EXCEPT !.pc = "marked"] @@ [marked |-> r.ret]
    /\ UNCHANGED <<runVars, last>>
    /\ UNCHANGED extVars

\* new_articles = hash_db.filter_new_articles(test_articles), the second time
MainFilterAgain ==
    /\ main.pc = "marked"
    /\ \E read_ok \in BOOLEAN :
          \E processed_hashes \in get_processed_hashes(ledger, FilterLimit, read_ok) :
             LET r == filter_new_articles(main.test_articles, processed_hashes)
             IN  main' = [main EXCEPT !.pc = "filtered_again"]
                         @@ [read_ok |-> read_ok, again |-> r.value]
    /\ UNCHANGED <<ledger, clock, runVars, last>>
    /\ UNCHANGED extVars

\* stats = hash_db.get_processing_stats(), and main returns
MainExit ==
    /\ main.pc \in {"filtered_again", "exit"}
    /\ main' = MainIdle
    /\ UNCHANGED <<ledger, clock, runVars, last>>
    /\ UNCHANGED extVars

----------------------------------------------------------------------------
(* process_rss_awards: one run at a time, a step per stage *)

Quiet == pc \in {"idle", "done", "crashed", "raised"}

UnknownCompany == Unknown \o <<" ", "C", "o", "m", "p", "a", "n", "y">>

\* RSSAwardsProcessor.extract_company_name, for the titles of this model (no pattern
\* and no separator matches them)
extract_company_name(title) ==
    IF title = None \/ title = <<>> THEN UnknownCompany
    ELSE Strip(Take(Strip(title), CompanyLen))

\* fetch_stats before Step 1 and after its last use
NoStats == [errors |-> 0]

InitialResults ==
    [success |-> FALSE, new_articles_count |-> 0, email_sent |-> FALSE,
     financial_data_count |-> 0, errors |-> <<>>, warnings |-> <<>>]

\* processor = RSSAwardsProcessor(...); results = {...}.  The constructor is called
\* before the try statement: when HashDatabaseManager, RSSFetcher or EmailSender
\* raises in it, process_rss_awards raises and there is no results
StartRun ==
    /\ Quiet
    /\ last.op = "none" /\ main.pc = "idle"
    /\ runs < MaxRuns
    /\ runs' = runs + 1
    /\ \E init_ok \in BOOLEAN :
          /\ pc' = IF init_ok THEN "fetch" ELSE "raised"
          /\ results' = IF init_ok THEN InitialResults ELSE <<>>
    /\ all_articles' = <<>>
    /\ filtered_articles' = <<>>
    /\ new_articles' = <<>>
    /\ financial_data' = <<>>
    /\ crashed_at' = "nowhere"
    /\ dedup_read_ok' = TRUE
    /\ ledger0' = ledger
    /\ UNCHANGED <<ledger, clock, degraded, notified, last, main>>
    /\ UNCHANGED extVars
    /\ UNCHANGED lookups
    /\ UNCHANGED fetch_stats

\* a Step 1 that puts the errors of fetch_stats into the error list
FetchAsError ==
    /\ pc = "fetch"
    /\ \E articles \in DbBatches, errors \in 0..1, raised \in BOOLEAN :
          /\ raised => articles = <<>> /\ errors = 1
          /\ all_articles' = articles
          /\ fetch_stats' = [errors |-> errors]
          /\ results' = IF errors > 0
                        THEN [results EXCEPT !.errors =
                                 Append(@, "RSS database had insertion errors")]
                        ELSE results
    /\ pc' = "filter"
    /\ UNCHANGED <<ledger, clock, filtered_articles, new_articles, financial_data,
                   crashed_at, dedup_read_ok, degraded, ledger0, notified, runs,
                   last, main>>
    /\ UNCHANGED extVars
    /\ UNCHANGED lookups

\* Step 1, RSSAwardsProcessor.fetch_rss_articles: fetch_and_store reports errors or
\* not and search_articles returns the rows, or one of them raises
Fetch ==
    /\ pc = "fetch"
    /\ \E articles \in DbBatches, errors \in 0..1, raised \in BOOLEAN :
          /\ raised => articles = <<>> /\ errors = 1
          /\ all_articles' = articles
          /\ fetch_stats' = [errors |-> errors]
          /\ results' = IF errors > 0
                        THEN [results EXCEPT !.warnings =
                                 Append(@, "RSS database had insertion errors")]
                        ELSE results
    /\ pc' = "filter"
    /\ UNCHANGED <<ledger, clock, filtered_articles, new_articles, financial_data,
                   crashed_at, dedup_read_ok, degraded, ledger0, notified, runs,
                   last, main>>
    /\ UNCHANGED extVars
    /\ UNCHANGED lookups

\* RSSAwardsProcessor.filter_awards_articles
filter_awards_articles(articles) ==
    IF articles = <<>> THEN <<>> ELSE apply_rule(articles, awards_bagging_filter)

\* Step 2
Filter ==
    /\ pc = "filter"
    /\ filtered_articles' = filter_awards_articles(all_articles)
    /\ fetch_stats' = NoStats
    /\ pc' = "dedup"
    /\ UNCHANGED <<ledger, clock, all_articles, new_articles, financial_data, results,
                   crashed_at, dedup_read_ok, degraded, ledger0, notified, runs,
                   last, main>>
    /\ UNCHANGED extVars
    /\ UNCHANGED lookups

\* RSSAwardsProcessor.get_new_articles_only, processed_hashes being what the ledger
\* read returned: when filter_new_articles raises, all articles are returned
get_new_articles_only(articles, processed_hashes) ==
    LET r == filter_new_articles(articles, processed_hashes)
    IN  IF r.raised THEN articles ELSE r.value

\* a Step 3 without the return of the run that found nothing new
DedupOnward ==
    /\ pc = "dedup"
    /\ \E read_ok \in BOOLEAN :
          \E processed_hashes \in get_processed_hashes(ledger, FilterLimit, read_ok) :
             LET new == get_new_articles_only(filtered_articles, processed_hashes)
             IN  /\ filtered_articles = <<>> => read_ok
                 /\ new_articles' = new
                 /\ dedup_read_ok' = read_ok
                 /\ degraded' = (degraded \/ ~read_ok
                                  \/ Cardinality(DOMAIN ledger) > FilterLimit)
                 /\ results' = [results EXCEPT !.new_articles_count = Len(new),
                                               !.success = FALSE]
                 /\ pc' = "enrich"
                 /\ all_articles' = IF new = <<>> THEN <<>> ELSE all_articles
    /\ UNCHANGED <<ledger, clock, filtered_articles, financial_data,
                   crashed_at, ledger0, notified, runs, last, main>>
    /\ UNCHANGED extVars
    /\ UNCHANGED lookups
    /\ UNCHANGED fetch_stats

\* Step 3, with the return of the run that found nothing new
Dedup ==
    /\ pc = "dedup"
    /\ \E read_ok \in BOOLEAN :
          \E processed_hashes \in get_processed_hashes(ledger, FilterLimit, read_ok) :
             LET new == get_new_articles_only(filtered_articles, processed_hashes)
             IN  /\ filtered_articles = <<>> => read_ok
                 /\ new_articles' = new
                 /\ dedup_read_ok' = read_ok
                 /\ degraded' = (degraded \/ ~read_ok
                                  \/ Cardinality(DOMAIN ledger) > FilterLimit)
                 /\ results' = [results EXCEPT !.new_articles_count = Len(new),
                                               !.success = (new = <<>>)]
                 /\ pc' = IF new = <<>> THEN "done" ELSE "enrich"
                 /\ all_articles' = IF new = <<>> THEN <<>> ELSE all_articles
    /\ UNCHANGED <<ledger, clock, filtered_articles, financial_data,
                   crashed_at, ledger0, notified, runs, last, main>>
    /\ UNCHANGED extVars
    /\ UNCHANGED lookups
    /\ UNCHANGED fetch_stats

\* what the two tries of get_company_financial_data give for one company
Attempts == [1..2 -> {"data", "error", "raise"}]

\* the loop of RSSAwardsProcessor.get_financial_data from its i-th article on
RECURSIVE FinancialLoop(_, _, _, _, _)
FinancialLoop(articles, attempts, i, data, processed_count) ==
    IF i > Len(articles) \/ processed_count >= max_financial_requests THEN data
    ELSE LET company_name == extract_company_name(articles[i].title)
         IN  IF company_name \in DOMAIN data
             THEN FinancialLoop(articles, attempts, i + 1, data, processed_count)
             ELSE LET a == attempts[company_name]
                      got == IF a[1] = "data" \/ a[2] = "data" THEN "data" ELSE "error"
                  IN  FinancialLoop(articles, attempts, i + 1,
                          [c \in DOMAIN data \cup {company_name} |->
                              IF c = company_name THEN got ELSE data[c]],
                          processed_count + 1)

\* RSSAwardsProcessor.get_financial_data
get_financial_data(articles, financial_tool, attempts) ==
    IF ~financial_tool \/ articles = <<>> THEN <<>>
    ELSE FinancialLoop(articles, attempts, 1, <<>>, 0)

\* three tries for a company
ThreeTries(a) == IF a[1] = "data" THEN <<a[1]>> ELSE a \o <<a[2]>>

\* "for attempt in range(max_retries)": the results of the calls made for one
\* company, the loop being left at the first result without "error"
Tries(a) == IF a[1] = "data" THEN <<a[1]>> ELSE a

\* the loop of get_financial_data from its i-th article on: the calls it makes, in
\* their order; a company is in financial_data as soon as it was looked up
RECURSIVE CallsLoop(_, _, _, _, _)
CallsLoop(articles, attempts, i, calls, processed_count) ==
    IF i > Len(articles) \/ processed_count >= max_financial_requests THEN calls
    ELSE LET company_name == extract_company_name(articles[i].title)
         IN  IF \E k \in DOMAIN calls : calls[k].company_name = company_name
             THEN CallsLoop(articles, attempts, i + 1, calls, processed_count)
             ELSE CallsLoop(articles, attempts, i + 1,
                      Append(calls, [company_name |-> company_name,
                                     data |-> Tries(attempts[company_name])]),
                      processed_count + 1)

\* the calls of get_company_financial_data that get_financial_data makes
get_financial_calls(articles, financial_tool, attempts) ==
    IF ~financial_tool \/ articles = <<>> THEN <<>>
    ELSE CallsLoop(articles, attempts, 1, <<>>, 0)

\* the companies get_financial_data looks up: the first max_financial_requests
\* different ones, in the order of the articles
RECURSIVE LookedUp(_, _, _)
LookedUp(articles, i, seen) ==
    IF i > Len(articles) \/ Cardinality(seen) >= max_financial_requests THEN seen
    ELSE LookedUp(articles, i + 1, seen \cup {extract_company_name(articles[i].title)})

\* Step 4
Enrich ==
    /\ pc = "enrich"
    /\ \E financial_tool \in BOOLEAN :
          \E attempts \in [IF financial_tool THEN LookedUp(new_articles, 1, {}) ELSE {}
                            -> Attempts] :
             LET data == get_financial_data(new_articles, financial_tool, attempts)
             IN  /\ financial_data' = data
                 /\ lookups' = get_financial_calls(new_articles, financial_tool, attempts)
                 /\ results' = [results EXCEPT !.financial_data_count =
                        Cardinality({c \in DOMAIN data : data[c] # "error"})]
    /\ pc' = "notify"
    /\ UNCHANGED <<ledger, clock, all_articles, filtered_articles, new_articles,
                   crashed_at, dedup_read_ok, degraded, ledger0, notified, runs,
                   last, main>>
    /\ UNCHANGED extVars
    /\ UNCHANGED fetch_stats

HashesOf(articles) == {generate_content_hash(articles[i]) : i \in DOMAIN articles}

\* a Step 5 whose mail holds the first of the new articles only
NotifyHead ==
    /\ pc = "notify"
    /\ \E email_sent \in BOOLEAN :
          /\ new_articles = <<>> => email_sent
          /\ results' = [results EXCEPT
                            !.email_sent = email_sent,
                            !.errors = IF email_sent THEN @
                                       ELSE Append(@, "Failed to send email")]
          /\ notified' = IF email_sent /\ new_articles # <<>>
                         THEN LET head == HashesOf(<<new_articles[1]>>)
                              IN  [h \in DOMAIN notified \cup head |->
                                      (IF h \in DOMAIN notified THEN notified[h] ELSE 0)
                                      + (IF h \in head THEN 1 ELSE 0)]
                         ELSE notified
    /\ pc' = "commit"
    /\ UNCHANGED <<ledger, clock, all_articles, filtered_articles, new_articles,
                   financial_data, crashed_at, dedup_read_ok, degraded, ledger0, runs,
                   last, main>>
    /\ UNCHANGED extVars
    /\ lookups' = <<>>
    /\ UNCHANGED fetch_stats

\* a Step 5 that keeps a failed mail out of the error list
NotifyUnrecorded ==
    /\ pc = "notify"
    /\ \E email_sent \in BOOLEAN :
          /\ new_articles = <<>> => email_sent
          /\ results' = [results EXCEPT !.email_sent = email_sent]
          /\ notified' = IF email_sent /\ new_articles # <<>>
                         THEN [h \in DOMAIN notified \cup HashesOf(new_articles) |->
                                  (IF h \in DOMAIN notified THEN notified[h] ELSE 0)
                                  + (IF h \in HashesOf(new_articles) THEN 1 ELSE 0)]
                         ELSE notified
    /\ pc' = "commit"
    /\ UNCHANGED <<ledger, clock, all_articles, filtered_articles, new_articles,
                   financial_data, crashed_at, dedup_read_ok, degraded, ledger0, runs,
                   last, main>>
    /\ UNCHANGED extVars
    /\ lookups' = <<>>
    /\ UNCHANGED fetch_stats

\* Step 5, RSSAwardsProcessor.send_email_alert: the mail for the whole batch is
\* delivered, or send_email returns False or raises
Notify ==
    /\ pc = "notify"
    /\ \E email_sent \in BOOLEAN :
          /\ new_articles = <<>> => email_sent
          /\ results' = [results EXCEPT
                            !.email_sent = email_sent,
                            !.errors = IF email_sent THEN @
                                       ELSE Append(@, "Failed to send email")]
          /\ notified' = IF email_sent /\ new_articles # <<>>
                         THEN [h \in DOMAIN notified \cup HashesOf(new_articles) |->
                                  (IF h \in DOMAIN notified THEN notified[h] ELSE 0)
                                  + (IF h \in HashesOf(new_articles) THEN 1 ELSE 0)]
                         ELSE notified
    /\ pc' = "commit"
    /\ UNCHANGED <<ledger, clock, all_articles, filtered_articles, new_articles,
                   financial_data, crashed_at, dedup_read_ok, degraded, ledger0, runs,
                   last, main>>
    /\ UNCHANGED extVars
    /\ lookups' = <<>>
    /\ UNCHANGED fetch_stats

\* the company_names RSSAwardsProcessor.mark_articles_processed builds
CompanyNames(articles) ==
    [title \in {Get(articles[i], "title", <<>>) : i \in DOMAIN articles} |->
        extract_company_name(title)]

\* processed_successfully = processor.mark_articles_processed(new_articles), and
\* the final results
MarkNewArticles ==
    \E connect_ok \in BOOLEAN :
       \E plan \in Plans(IF connect_ok THEN Len(new_articles) ELSE 0) :
          LET r == mark_articles_processed(ledger, clock, new_articles,
                      CompanyNames(new_articles), connect_ok, plan)
              processed_successfully == (r.ret = Len(new_articles))
          IN  /\ r.clock <= MaxTime
              /\ ledger' = r.ledger
              /\ clock' = r.clock
              /\ degraded' = (degraded \/ ~processed_successfully)
              /\ results' = [results EXCEPT
                    !.warnings = IF processed_successfully THEN @
                        ELSE Append(@, "Failed to mark some articles as processed"),
                    !.success = (results.errors = <<>>)]

\* the gate of Step 6 written as "if True": the ledger is written after a failed mail too
CommitUngated ==
    /\ pc = "commit"
    /\ MarkNewArticles
    /\ pc' = "done"
    /\ all_articles' = <<>>
    /\ financial_data' = <<>>
    /\ UNCHANGED <<filtered_articles, new_articles,
                   crashed_at, dedup_read_ok, ledger0, notified, runs, last, main>>
    /\ UNCHANGED extVars
    /\ UNCHANGED lookups
    /\ UNCHANGED fetch_stats

\* Step 6 and the final results: the ledger is written only if the mail was sent
Commit ==
    /\ pc = "commit"
    /\ IF results.email_sent
       THEN MarkNewArticles
       ELSE /\ results' = [results EXCEPT !.success = (results.errors = <<>>)]
            /\ UNCHANGED <<ledger, clock, degraded>>
    /\ pc' = "done"
    /\ all_articles' = <<>>
    /\ financial_data' = <<>>
    /\ UNCHANGED <<filtered_articles, new_articles,
                   crashed_at, dedup_read_ok, ledger0, notified, runs, last, main>>
    /\ UNCHANGED extVars
    /\ UNCHANGED lookups
    /\ UNCHANGED fetch_stats

\* the process of the run is killed
Crash ==
    /\ ~Quiet
    /\ pc' = "crashed"
    /\ crashed_at' = pc
    /\ degraded' = (degraded \/ (pc = "commit" /\ results.email_sent))
    /\ all_articles' = <<>>
    /\ financial_data' = <<>>
    /\ UNCHANGED <<ledger, clock, filtered_articles, new_articles,
                   results, dedup_read_ok, ledger0, notified, runs,
                   last, main>>
    /\ fetch_stats' = NoStats
    /\ UNCHANGED extVars
    /\ lookups' = <<>>

----------------------------------------------------------------------------
(* DatabaseManager.insert_articles on the table articles, content_hash and  *)
(* link both UNIQUE; of a row the model keeps title, link and summary       *)

\* str.replace(' ', '-')
ReplaceSpaces(s) == [i \in DOMAIN s |-> IF s[i] = " " THEN "-" ELSE s[i]]

\* source_part of an article without the key source_feed
UnknownSource == <<"u", "n", "k", "n", "o", "w", "n">>

\* hash(str(article)): the hash of a str is salted per process, so that the number
\* is any one
Discriminators == {<<"1">>, <<"2">>}

\* the pseudo-link of an article without a link
PseudoLink(article, discriminator) ==
    LET title_part == Lower(ReplaceSpaces(Take(Get(article, "title", <<>>), TitlePartLen)))
    IN  InternalScheme \o UnknownSource \o <<"/">> \o title_part \o <<"/">>
        \o discriminator

\* the body of the loop of insert_articles for one article that has a title and a
\* summary: the table afterwards
InsertArticle(table, article, discriminator) ==
    LET stripped == Strip(Get(article, "link", <<>>))
        link == IF stripped = <<>> THEN PseudoLink(article, discriminator) ELSE stripped
        content_hash == _generate_content_hash(article.title, article.summary, link)
    IN  IF content_hash \in DOMAIN table
        THEN table
        ELSE IF \E h \in DOMAIN table : table[h].link = link
             THEN table
             ELSE [h \in DOMAIN table \cup {content_hash} |->
                     IF h = content_hash
                     THEN [title |-> article.title, link |-> link,
                           summary |-> article.summary]
                     ELSE table[h]]

\* DatabaseManager.insert_articles from the i-th article on
RECURSIVE insert_articles(_, _, _, _)
insert_articles(table, articles, discriminators, i) ==
    IF i > Len(articles) THEN table
    ELSE insert_articles(InsertArticle(table, articles[i], discriminators[i]),
                         articles, discriminators, i + 1)

\* feed entries: without a link, with a blank link and blanks around the title, and
\* with a link
FNoLink == [title |-> T1, summary |-> S1, link |-> <<>>]
FBlankLink == [title |-> T1sp, summary |-> S1, link |-> <<" ">>]
FNews == [title |-> T3, summary |-> <<>>, link |-> <<>>]

FeedArticles == {FNoLink, FBlankLink, FNews, A2}

FeedBatches == UNION {[1..n -> FeedArticles] : n \in 0..MaxBatch}

\* fetch_and_store: a feed is fetched and its entries stored
SInsert ==
    /\ last.op = "none"
    /\ \E articles \in FeedBatches :
          \E discriminators \in [DOMAIN articles -> Discriminators] :
             /\ articles_table' = insert_articles(articles_table, articles,
                                                  discriminators, 1)
             /\ last' = [op |-> "insert", articles |-> articles,
                         discriminators |-> discriminators]
    /\ UNCHANGED <<ledger, clock, runVars, main, schedVars>>

\* DatabaseManager.cleanup_old_articles, the rows all being old
SCleanup ==
    /\ last.op = "none"
    /\ articles_table # EmptyLedger
    /\ articles_table' = EmptyLedger
    /\ last' = [op |-> "cleanup_articles"]
    /\ UNCHANGED <<ledger, clock, runVars, main, schedVars>>

----------------------------------------------------------------------------
(* Calls of the rule engine, one at a time, on records and rules of the model *)

\* a record with the link of A2
ASameLink == [title |-> T1, summary |-> S1, link |-> L2]
\* a dict without the key title
ANoTitle == [summary |-> AwardWord, link |-> L3]

\* two dicts without the key link
ANoLinkT1 == [title |-> T1, summary |-> S1]
ANoLinkT2 == [title |-> T2, summary |-> <<>>]

EngArticles == {A2, A3, ASameLink, ANone, ANoTitle, ANoLinkT1, ANoLinkT2}

EngBatches == UNION {[1..n -> EngArticles] : n \in 0..MaxBatch}

MatchTypes == {"contains", "exact", "regex", "starts_with", "ends_with"}

Operators == {"and", "or", "not"}

\* a pattern re.compile rejects
BadPattern == <<"(">>

\* the pattern \S: a character that is no blank
NonSpace == <<"\\", "S">>

MatchConditions ==
    {Condition(field, value, match_type, case_sensitive, "and") :
        field \in {"title", "summary"},
        value \in {AwardWord, T2, <<>>, BadPattern, NonSpace},
        match_type \in MatchTypes, case_sensitive \in BOOLEAN}

\* the conditions of the rules handed to _evaluate_rule
RuleConditions ==
    {Condition("title", AwardWord, "contains", FALSE, operator) :
        operator \in Operators}
    \cup {Condition("summary", S1, "exact", TRUE, operator) : operator \in Operators}

EvalRules ==
    {[name |-> "R", conditions |-> conditions, priority |-> 1, is_active |-> is_active] :
        conditions \in UNION {[1..n -> RuleConditions] : n \in 0..MaxConditions},
        is_active \in BOOLEAN}

RuleA ==
    [name |-> "A", priority |-> 5, is_active |-> TRUE,
     conditions |-> <<Condition("title", AwardWord, "contains", FALSE, "and")>>]

RuleB ==
    [name |-> "B", priority |-> 3, is_active |-> TRUE,
     conditions |-> <<Condition("title", AwardWord, "contains", FALSE, "or"),
                      Condition("summary", S1, "exact", TRUE, "or")>>]

\* of the priority of RuleA
RuleC ==
    [name |-> "C", priority |-> 5, is_active |-> TRUE,
     conditions |-> <<Condition("summary", S1, "exact", TRUE, "and")>>]

RuleOff ==
    [name |-> "Off", priority |-> 7, is_active |-> FALSE,
     conditions |-> <<Condition("title", AwardWord, "contains", FALSE, "and")>>]

RuleEmpty == [name |-> "Empty", priority |-> 1, is_active |-> TRUE, conditions |-> <<>>]

\* its first condition holds a pattern that does not compile
RuleBad ==
    [name |-> "Bad", priority |-> 4, is_active |-> TRUE,
     conditions |-> <<Condition("title", BadPattern, "regex", FALSE, "or"),
                      Condition("title", AwardWord, "contains", FALSE, "or")>>]

EngRules == {RuleA, RuleB, RuleC, RuleOff, RuleEmpty, RuleBad}

RuleLists == UNION {[1..n -> EngRules] : n \in 0..MaxRules}

\* engine._match_condition(article, condition)
EMatch ==
    /\ last.op = "none"
    /\ \E article \in EngArticles, condition \in MatchConditions :
          LET r == MatchOutcome(article, condition)
          IN  last' = [op |-> "match", article |-> article, condition |-> condition,
                       raised |-> r.raised,
                       ret |-> IF r.raised THEN FALSE ELSE r.value]
    /\ UNCHANGED <<ledger, clock, runVars, main, extVars>>

\* engine._evaluate_rule(article, rule)
EEvaluate ==
    /\ last.op = "none"
    /\ \E article \in EngArticles, rule \in EvalRules :
          last' = [op |-> "evaluate", article |-> article, rule |-> rule,
                   ret |-> _evaluate_rule(article, rule)]
    /\ UNCHANGED <<ledger, clock, runVars, main, extVars>>

\* engine.apply_rule(articles, rule)
EApplyRule ==
    /\ last.op = "none"
    /\ \E articles \in EngBatches, rule \in EngRules :
          last' = [op |-> "apply_rule", articles |-> articles, rule |-> rule,
                   ret |-> apply_rule(articles, rule)]
    /\ UNCHANGED <<ledger, clock, runVars, main, extVars>>

\* engine.apply_rules(articles, rules)
EApplyRules ==
    /\ last.op = "none"
    /\ \E articles \in EngBatches, rules \in RuleLists :
          last' = [op |-> "apply_rules", articles |-> articles, rules |-> rules,
                   ret |-> apply_rules(articles, rules)]
    /\ UNCHANGED <<ledger, clock, runVars, main, extVars>>

LReturn ==
    /\ last.op # "none"
    /\ last' = Idle
    /\ UNCHANGED <<ledger, clock, runVars, main>>
    /\ UNCHANGED extVars

----------------------------------------------------------------------------
(* RSSScheduler: the thread of start(), the heartbeat thread and the worker  *)
(* thread of the executor; time in minutes                                   *)

\* self.sleep_threshold = 300
sleep_threshold == 5
\* time.sleep(60)
HeartbeatSleep == 1
\* IntervalTrigger(minutes=15)
interval == 15
\* 'misfire_grace_time': 600
misfire_grace_time == 10

Threads == {"main", "heartbeat", "job"}

NoThread == [pc |-> "off", current_time |-> 0, wake |-> 0]

\* the threads inside run_processor
Running == {t \in Threads : thread[t].pc = "run"}

\* the lengths of a suspension of the system the model follows: one that the
\* heartbeat takes for a sleep, and one that is longer than the grace time as well
SuspendGaps == {sleep_threshold + 1, misfire_grace_time + 1}

\* the scheduled time the interval job is due for at time now (coalesce: the last one)
RunTime(now) == next_run_time + interval * ((now - next_run_time) \div interval)

\* the heartbeat thread is at the top of its loop, "while self.running"
HeartbeatDue ==
    /\ running
    /\ thread["heartbeat"].pc = "sleep"
    /\ wall_clock >= thread["heartbeat"].wake

\* the scheduler is started and the interval job is due
JobDue == thread["main"].pc = "blocked" /\ wall_clock >= next_run_time

\* start() up to the call of run_processor: the trigger of the job is made, running
\* is set, the heartbeat thread is started, and run_processor sets last_heartbeat
Start ==
    /\ thread["main"].pc = "off" /\ ~running
    /\ last.op = "none" /\ main.pc = "idle" /\ pc = "idle"
    /\ running' = TRUE
    /\ next_run_time' = wall_clock + interval
    /\ last_heartbeat' = wall_clock
    /\ thread' = [thread EXCEPT !["main"].pc = "run",
                                !["heartbeat"] = [pc |-> "sleep", current_time |-> 0,
                                                  wake |-> wall_clock]]
    /\ UNCHANGED <<ledger, clock, runVars, last, main, articles_table, wall_clock>>

    /\ suspended' = FALSE
\* the initial run_processor returns and scheduler.start() blocks: the first run
\* time of the job is the first time of the trigger that has not passed
InitialRunEnd ==
    /\ thread["main"].pc = "run"
    /\ next_run_time' = IF next_run_time >= wall_clock THEN next_run_time
                        ELSE RunTime(wall_clock + interval - 1)
    /\ thread' = [thread EXCEPT !["main"].pc = "blocked"]
    /\ UNCHANGED <<ledger, clock, runVars, last, main, articles_table, running,
                   last_heartbeat, wall_clock>>

    /\ UNCHANGED suspended
\* one pass of the loop of heartbeat_monitor up to run_processor or time.sleep(60)
HeartbeatCheck ==
    /\ HeartbeatDue
    /\ LET current_time == wall_clock
           time_gap == current_time - last_heartbeat
       IN  IF time_gap > sleep_threshold
           THEN \* self.run_processor(): self.last_heartbeat = job_start_time
                /\ thread' = [thread EXCEPT !["heartbeat"] =
                                 [pc |-> "run", current_time |-> current_time, wake |-> 0]]
                /\ last_heartbeat' = wall_clock
           ELSE /\ thread' = [thread EXCEPT !["heartbeat"] =
                                 [pc |-> "sleep", current_time |-> 0,
                                  wake |-> wall_clock + HeartbeatSleep]]
                /\ last_heartbeat' = current_time
    /\ UNCHANGED <<ledger, clock, runVars, last, main, articles_table, running,
                   wall_clock, next_run_time>>

    /\ suspended' = FALSE
\* the catch-up run_processor returns: self.last_heartbeat = current_time; time.sleep(60)
HeartbeatRunEnd ==
    /\ thread["heartbeat"].pc = "run"
    /\ last_heartbeat' = thread["heartbeat"].current_time
    /\ thread' = [thread EXCEPT !["heartbeat"] =
                     [pc |-> "sleep", current_time |-> 0,
                      wake |-> wall_clock + HeartbeatSleep]]
    /\ UNCHANGED <<ledger, clock, runVars, last, main, articles_table, running,
                   wall_clock, next_run_time>>

    /\ UNCHANGED suspended
\* the scheduler processes the due job: with max_instances 1 a run time is skipped
\* while an instance runs, and with misfire_grace_time a run time that is later than
\* the grace time is missed; otherwise the worker thread enters run_processor
JobFire ==
    /\ JobDue
    /\ LET run_time == RunTime(wall_clock)
       IN  /\ next_run_time' = run_time + interval
           /\ IF thread["job"].pc = "run" \/ wall_clock - run_time > misfire_grace_time
              THEN UNCHANGED <<thread, last_heartbeat>>
              ELSE /\ thread' = [thread EXCEPT !["job"].pc = "run"]
                   /\ last_heartbeat' = wall_clock
    /\ UNCHANGED <<ledger, clock, runVars, last, main, articles_table, running,
                   wall_clock>>

    /\ UNCHANGED suspended
\* run_processor returns in the worker thread
JobEnd ==
    /\ thread["job"].pc = "run"
    /\ thread' = [thread EXCEPT !["job"].pc = "off"]
    /\ UNCHANGED <<ledger, clock, runVars, last, main, articles_table, running,
                   last_heartbeat, wall_clock, next_run_time>>

    /\ UNCHANGED suspended
\* a minute passes; the heartbeat thread and the scheduler are not late by themselves
Pass ==
    /\ running
    /\ wall_clock < MaxNow
    /\ ~HeartbeatDue /\ ~JobDue
    /\ wall_clock' = wall_clock + 1
    /\ UNCHANGED <<ledger, clock, runVars, last, main, articles_table, running,
                   last_heartbeat, next_run_time, thread>>

    /\ UNCHANGED suspended
\* the system is suspended and wakes up: the wall clock jumps, no thread has moved
Suspend ==
    /\ running
    /\ \E gap \in SuspendGaps :
          /\ wall_clock + gap <= MaxNow
          /\ wall_clock' = wall_clock + gap
    /\ UNCHANGED <<ledger, clock, runVars, last, main, articles_table, running,
                   last_heartbeat, next_run_time, thread>>

    /\ suspended' = TRUE
\* _signal_handler while scheduler.start() blocks and no job runs: stop(), and
\* sys.exit(0) ends the process and with it the daemon thread of the heartbeat
Stop ==
    /\ running
    /\ thread["main"].pc = "blocked" /\ thread["job"].pc # "run"
    /\ running' = FALSE
    /\ thread' = [t \in Threads |-> NoThread]
    /\ UNCHANGED <<ledger, clock, runVars, last, main, articles_table,
                   last_heartbeat, wall_clock, next_run_time>>

    /\ UNCHANGED suspended
Init ==
    /\ ledger = EmptyLedger
    /\ clock = 0
    /\ pc = "idle"
    /\ all_articles = <<>>
    /\ filtered_articles = <<>>
    /\ new_articles = <<>>
    /\ financial_data = <<>>
    /\ results = <<>>
    /\ fetch_stats = NoStats
    /\ crashed_at = "nowhere"
    /\ dedup_read_ok = TRUE
    /\ degraded = FALSE
    /\ ledger0 = EmptyLedger
    /\ lookups = <<>>
    /\ notified = EmptyLedger
    /\ runs = 0
    /\ last = Idle
    /\ main = MainIdle
    /\ articles_table = EmptyLedger
    /\ running = FALSE
    /\ last_heartbeat = 0
    /\ wall_clock = 0
    /\ next_run_time = 0
    /\ suspended = FALSE
    /\ thread = [t \in Threads |-> NoThread]

LedgerNext ==
    \/ Tick
    \/ LMarkArticle
    \/ LMarkArticles
    \/ LFilterNew
    \/ LIsProcessed
    \/ LStats
    \/ LCleanup
    \/ LReset
    \/ LReturn
    \/ MainFilter
    \/ MainMark
    \/ MainFilterAgain
    \/ MainExit

LedgerSpec == Init /\ [][LedgerNext]_vars

StoreNext ==
    \/ SInsert
    \/ SCleanup
    \/ LReturn

StoreSpec == Init /\ [][StoreNext]_vars

EngineNext ==
    \/ EMatch
    \/ EEvaluate
    \/ EApplyRule
    \/ EApplyRules
    \/ LReturn

EngineSpec == Init /\ [][EngineNext]_vars

SchedNext ==
    \/ Start
    \/ InitialRunEnd
    \/ HeartbeatCheck
    \/ HeartbeatRunEnd
    \/ JobFire
    \/ JobEnd
    \/ Pass
    \/ Suspend
    \/ Stop

SchedSpec == Init /\ [][SchedNext]_vars

Next ==
    \/ Tick
    \/ StartRun
    \/ Fetch
    \/ Filter
    \/ Dedup
    \/ Enrich
    \/ Notify
    \/ Commit
    \/ Crash

Spec == Init /\ [][Next]_vars

----------------------------------------------------------------------------
(* C1 *)

\* C1: within a run the ledger is written only by COMMIT, and only when NOTIFY of
\* that run reported success; a run whose NOTIFY failed writes nothing
C1_CommitOnlyAfterNotify ==
    [][ledger' # ledger => (pc = "commit" /\ results.email_sent)]_vars

\* a run that delivered its mail and then wrote the ledger
C1_Witness == pc = "done" /\ results.email_sent /\ ledger # ledger0

----------------------------------------------------------------------------
(* C2 *)

\* C2, as stated: when a run with new records ends without COMMIT (NOTIFY failed, or
\* the process was killed between the delivered mail and COMMIT), the ledger is as it
\* was before the run and the next filterNew on the same batch returns the same
\* non-empty set, whatever the ledger read of that next run does
C2_Original ==
    (/\ new_articles # <<>>
     /\ \/ pc = "done" /\ ~results.email_sent
        \/ pc = "crashed" /\ crashed_at = "commit" /\ results.email_sent)
    => /\ ledger = ledger0
       /\ \A read_ok \in BOOLEAN :
             \A processed_hashes \in get_processed_hashes(ledger, FilterLimit, read_ok) :
                get_new_articles_only(filtered_articles, processed_hashes) = new_articles

\* C2, amended: such a run leaves the ledger as it was before the run, and every new
\* record of the run that the ledger does not hold is returned again by the next
\* filterNew on the same batch (no record is lost); the next filterNew returns exactly
\* the same set when the ledger reads of both runs succeed and the ledger holds at
\* most limit fingerprints, and the whole batch when its ledger read fails
C2_NoCommitLeavesLedger ==
    (/\ new_articles # <<>>
     /\ \/ pc = "done" /\ ~results.email_sent
        \/ pc = "crashed" /\ crashed_at = "commit" /\ results.email_sent)
    => /\ ledger = ledger0
       /\ \A read_ok \in BOOLEAN :
             \A processed_hashes \in get_processed_hashes(ledger, FilterLimit, read_ok) :
                LET next == get_new_articles_only(filtered_articles, processed_hashes)
                IN  /\ \A i \in DOMAIN new_articles :
                          generate_content_hash(new_articles[i]) \notin DOMAIN ledger
                          => \E j \in DOMAIN next : next[j] = new_articles[i]
                    /\ (dedup_read_ok /\ read_ok
                        /\ Cardinality(DOMAIN ledger) <= FilterLimit)
                       => next = new_articles
                    /\ ~read_ok => next = filtered_articles

\* the process was killed after the mail of two new records was delivered and
\* before COMMIT
C2_Witness ==
    /\ pc = "crashed" /\ crashed_at = "commit" /\ results.email_sent
    /\ Len(new_articles) = 2
    /\ ledger = ledger0

----------------------------------------------------------------------------
(* C3 *)

----------------------------------------------------------------------------
(* C4 *)

\* C4, as stated: filterNew(B), markMany of its result and filterNew(B) again give an
\* empty second result, for every batch and every ledger
C4_Original == main.pc = "filtered_again" => main.again = <<>>

\* C4, amended: the second result is empty when markMany wrote every record it was
\* handed (its count equals their number), the second ledger read succeeds and the
\* ledger then holds at most limit fingerprints
C4_Idempotent ==
    (/\ main.pc = "filtered_again"
     /\ main.marked = Len(main.new_articles)
     /\ main.read_ok
     /\ Cardinality(DOMAIN ledger) <= FilterLimit)
    => main.again = <<>>

\* main found new records, wrote them all, and its second filter_new_articles read
\* the ledger
C4_Witness ==
    /\ main.pc = "filtered_again"
    /\ main.new_articles # <<>>
    /\ main.marked = Len(main.new_articles)
    /\ main.read_ok
    /\ Cardinality(DOMAIN ledger) <= FilterLimit
    /\ main.again = <<>>

----------------------------------------------------------------------------
(* C5 *)

\* C5, as stated: filterNew returns, in input order, exactly the input records whose
\* fingerprint is not among the limit most recently processed fingerprints of the
\* ledger (rows of equal processed_at being ranked in some order)
C5_Original ==
    (last.op = "filter_new" /\ ~last.ret.raised)
    => \E S \in SUBSET DOMAIN ledger :
          /\ Cardinality(S) = IF Cardinality(DOMAIN ledger) < FilterLimit
                              THEN Cardinality(DOMAIN ledger) ELSE FilterLimit
          /\ \A h \in S : \A g \in (DOMAIN ledger) \ S :
                ledger[h].processed_at >= ledger[g].processed_at
          /\ last.ret.value =
                SelectSeq(last.articles, LAMBDA a : generate_content_hash(a) \notin S)

\* C5, amended: that is what filterNew returns when its ledger read succeeds; when
\* the read fails it returns every input record, and it raises on a record whose
\* title or summary is None
C5_FilterNew ==
    /\ (last.op = "filter_new" /\ ~last.ret.raised /\ last.read_ok)
       => \E S \in SUBSET DOMAIN ledger :
             /\ Cardinality(S) = IF Cardinality(DOMAIN ledger) < FilterLimit
                                 THEN Cardinality(DOMAIN ledger) ELSE FilterLimit
             /\ \A h \in S : \A g \in (DOMAIN ledger) \ S :
                   ledger[h].processed_at >= ledger[g].processed_at
             /\ last.ret.value =
                   SelectSeq(last.articles, LAMBDA a : generate_content_hash(a) \notin S)
    /\ (last.op = "filter_new" /\ ~last.ret.raised /\ ~last.read_ok)
       => last.ret.value = last.articles
    /\ (last.op = "filter_new" /\ last.articles # <<>>)
       => (last.ret.raised <=> \E i \in DOMAIN last.articles :
                                   HashRaises(last.articles[i]))

\* a batch of two records, both in the ledger: the one written last is excluded, the
\* one older than the limit-th most recent entry is returned as new
C5_Witness ==
    /\ last.op = "filter_new" /\ last.read_ok /\ ~last.ret.raised
    /\ Len(last.articles) = 2
    /\ \A i \in DOMAIN last.articles :
          generate_content_hash(last.articles[i]) \in DOMAIN ledger
    /\ Len(last.ret.value) = 1
    /\ \A h \in DOMAIN ledger :
          ledger[h].processed_at
             >= ledger[generate_content_hash(last.ret.value[1])].processed_at
    /\ \E h \in DOMAIN ledger :
          ledger[h].processed_at
             > ledger[generate_content_hash(last.ret.value[1])].processed_at

----------------------------------------------------------------------------
(* C6 *)

\* C6: markMany is best-effort: once the ledger is open, every entry whose own
\* handling does not fail (its fingerprint can be computed and its statement does
\* not raise) is written, whatever happened to the entries before it, and the
\* returned count is the number of entries written
C6_BestEffort ==
    (last.op = "mark_many" /\ last.connect_ok)
    => LET written == {i \in DOMAIN last.articles :
                          ~HashRaises(last.articles[i]) /\ i \notin last.failed}
       IN  /\ \A i \in written :
                 generate_content_hash(last.articles[i]) \in DOMAIN ledger
           /\ last.ret = Cardinality(written)

----------------------------------------------------------------------------
(* C7 *)

\* C7, as stated: a fingerprint of the ledger stays in the ledger through every
\* operation but cleanup: markProcessed, markMany, filterNew, isProcessed, stats and
\* reset remove none
C7_Original ==
    [][\A h \in DOMAIN ledger : h \in DOMAIN ledger' \/ last'.op = "cleanup"]_vars

\* C7, amended: a fingerprint of the ledger stays in the ledger through every
\* operation but cleanup and reset: reset_database deletes every row
C7_NeverLost ==
    [][\A h \in DOMAIN ledger :
          h \in DOMAIN ledger' \/ last'.op \in {"cleanup", "reset"}]_vars

\* a record was marked while the ledger held the fingerprint of another one, which
\* is still there
C7_Witness ==
    /\ last.op = "mark" /\ last.ret /\ ~last.existed
    /\ Cardinality(DOMAIN ledger) >= 2

----------------------------------------------------------------------------
(* C8 *)

\* C8: marking a record whose fingerprint the ledger holds returns True, leaves the
\* set of fingerprints as it was, and replaces the row by the values of this write
\* (processed_at, title cut to 200 characters, company name, link); in a markMany
\* whose writes all succeed the row of a fingerprint is that of its last record
C8_Upsert ==
    [][/\ (/\ last'.op = "mark" /\ last.op = "none" /\ last'.fault = "none"
           /\ ~HashRaises(last'.article)
           /\ generate_content_hash(last'.article) \in DOMAIN ledger)
          => LET a == last'.article
                 h == generate_content_hash(a)
             IN  /\ last'.ret = TRUE
                 /\ DOMAIN ledger' = DOMAIN ledger
                 /\ \A g \in (DOMAIN ledger) \ {h} : ledger'[g] = ledger[g]
                 /\ ledger'[h].processed_at = clock
                 /\ ledger'[h].title
                       = SubSeq(Get(a, "title", <<>>), 1,
                                IF Len(Get(a, "title", <<>>)) < 200
                                THEN Len(Get(a, "title", <<>>)) ELSE 200)
                 /\ ledger'[h].article_link = Get(a, "link", <<>>)
       /\ (/\ last'.op = "mark_many" /\ last.op = "none"
           /\ last'.ret = Len(last'.articles))
          => \A i \in DOMAIN last'.articles :
                LET a == last'.articles[i]
                    h == generate_content_hash(a)
                IN  (\A j \in DOMAIN last'.articles :
                        j > i => generate_content_hash(last'.articles[j]) # h)
                    => /\ h \in DOMAIN ledger'
                       /\ ledger'[h].title = Get(a, "title", <<>>)
                       /\ ledger'[h].article_link = Get(a, "link", <<>>)
                       /\ ledger'[h].processed_at >= clock
                       /\ ledger'[h].processed_at <= clock']_vars

\* the variant of a record was marked at a later time than the record itself: one
\* row, carrying the variant's link and the later time
C8_Witness ==
    /\ last.op = "mark" /\ last.existed /\ last.ret
    /\ last.article = A1v
    /\ ledger[generate_content_hash(A1)].article_link = L1y
    /\ ledger[generate_content_hash(A1)].processed_at = clock
    /\ clock > 0

----------------------------------------------------------------------------
(* C9 *)

\* C9: cleanup removes exactly the entries whose processed_at is older than now minus
\* the retention window, keeps every other entry, and returns the number of entries
\* it removed
C9_Cleanup ==
    [][(last'.op = "cleanup" /\ last.op = "none" /\ last'.connect_ok)
       => LET old == {h \in DOMAIN ledger :
                         ledger[h].processed_at < clock - last'.days_to_keep}
          IN  /\ DOMAIN ledger' = (DOMAIN ledger) \ old
              /\ \A h \in DOMAIN ledger' : ledger'[h] = ledger[h]
              /\ last'.ret = Cardinality(old)]_vars

----------------------------------------------------------------------------
(* C10 *)

\* C10: the fingerprint depends only on the trimmed title, the trimmed summary and
\* the first 100 characters of the link: once a record is marked, every record that
\* agrees with it on these three values (a link that differs after its 100th
\* character, empty strings) has its fingerprint, computed by another call, in the
\* ledger, and DatabaseManager._generate_content_hash gives the two one hash as well
C10_FingerprintInputs ==
    (last.op = "mark" /\ last.ret)
    => \A b \in ApiArticles :
          LET a == last.article
              link_a == Get(a, "link", <<>>)
              link_b == Get(b, "link", <<>>)
          IN  (/\ ~HashRaises(b)
               /\ Strip(Get(a, "title", <<>>)) = Strip(Get(b, "title", <<>>))
               /\ Strip(Get(a, "summary", <<>>)) = Strip(Get(b, "summary", <<>>))
               /\ SubSeq(link_a, 1, IF Len(link_a) < 100 THEN Len(link_a) ELSE 100)
                  = SubSeq(link_b, 1, IF Len(link_b) < 100 THEN Len(link_b) ELSE 100))
              => /\ generate_content_hash(b) \in DOMAIN ledger
                 /\ generate_content_hash(b) = generate_content_hash(a)
                 /\ _generate_content_hash(Get(b, "title", <<>>),
                                           Get(b, "summary", <<>>), link_b)
                    = _generate_content_hash(Get(a, "title", <<>>),
                                             Get(a, "summary", <<>>), link_a)

\* the ledger holds one fingerprint after a record, and then the record of empty
\* strings, were marked; it is the fingerprint of the record's variant (blanks
\* around the title, another link after the 100th character) too
C10_Witness ==
    /\ last.op = "mark" /\ last.ret /\ last.article = AEmpty
    /\ generate_content_hash(ANoLink) \in DOMAIN ledger
    /\ generate_content_hash(A1v) \in DOMAIN ledger
    /\ ledger[generate_content_hash(A1v)].article_link = L1x
    /\ Cardinality(DOMAIN ledger) = 2

----------------------------------------------------------------------------
(* C11 *)

\* C11: the two fingerprint functions agree on every stored record, and for a stored
\* record without a true link (its link is the internal:// placeholder) both give
\* the fingerprint of title, summary and the empty stabilizer
C11_PlaceholderNotHashed ==
    \A h \in DOMAIN articles_table :
       LET row == articles_table[h]
       IN  /\ _generate_content_hash(row.title, row.summary, row.link) = h
           /\ generate_content_hash(row) = h
           /\ StartsWith(row.link, InternalScheme)
              => h = <<"md5", Strip(row.title) \o <<"|">> \o Strip(row.summary)
                              \o <<"|">>>>

----------------------------------------------------------------------------
(* C12 *)

\* C12: the verdict of a rule is False for an inactive rule and for a rule without
\* conditions; otherwise it is the left-to-right fold of the match results, each
\* inverted when its combinator is NOT: the accumulator starts as the first result,
\* a later condition of combinator AND is conjoined, one of combinator OR is
\* disjoined (and one of combinator NOT leaves the accumulator as it is)
C12_Fold ==
    last.op = "evaluate"
    => LET rule == last.rule
           n == Len(rule.conditions)
           result(i) ==
               IF rule.conditions[i].operator = "not"
               THEN ~_match_condition(last.article, rule.conditions[i])
               ELSE _match_condition(last.article, rule.conditions[i])
           RECURSIVE accumulator(_)
           accumulator(i) ==
               IF i = 1 THEN result(1)
               ELSE CASE rule.conditions[i].operator = "and" ->
                            accumulator(i - 1) /\ result(i)
                      [] rule.conditions[i].operator = "or" ->
                            accumulator(i - 1) \/ result(i)
                      [] OTHER -> accumulator(i - 1)
       IN  last.ret = IF ~rule.is_active \/ n = 0 THEN FALSE ELSE accumulator(n)

\* an active rule of three conditions that mixes OR and AND, where the fold from the
\* left gives False and AND binding tighter than OR would give True
C12_Witness ==
    /\ last.op = "evaluate" /\ last.rule.is_active
    /\ Len(last.rule.conditions) = 3
    /\ last.rule.conditions[2].operator = "or"
    /\ last.rule.conditions[3].operator = "and"
    /\ _match_condition(last.article, last.rule.conditions[1])
    /\ last.rule.conditions[1].operator = "and"
    /\ ~_match_condition(last.article, last.rule.conditions[3])
    /\ last.ret = FALSE

----------------------------------------------------------------------------
(* C13 *)

\* C13: apply_rule returns the empty list, whatever the records, for a rule that is
\* inactive and for a rule that has no conditions
C13_MatchesNothing ==
    (/\ last.op = "apply_rule"
     /\ (~last.rule.is_active \/ last.rule.conditions = <<>>))
    => last.ret = <<>>

----------------------------------------------------------------------------
(* C14 *)

\* C14: _match_condition returns False, and does not raise, for a record that has no
\* value for the field of the condition (the key is missing or its value is None),
\* whatever the match type, the comparand and the case sensitivity
C14_MissingFieldIsFalse ==
    (/\ last.op = "match"
     /\ \/ last.condition.field \notin DOMAIN last.article
        \/ last.article[last.condition.field] = None)
    => (~last.raised /\ last.ret = FALSE)

----------------------------------------------------------------------------
(* C15 *)

\* C15: a condition whose regex comparand does not compile is never evaluated as a
\* non-match: _match_condition raises for it instead of returning
C15_InvalidRegexFailsFast ==
    (/\ last.op = "match"
     /\ last.condition.match_type = "regex"
     /\ \E i \in DOMAIN last.condition.value : last.condition.value[i] = "(")
    => last.raised

----------------------------------------------------------------------------
(* C16 *)

\* C16: in apply_rules, for every link value of a record that matches an active rule
\* the output holds exactly one record of that link; it is the copy of an input
\* record of that link, annotated with the name and the priority of a rule that
\* matches it and that no rule matching it exceeds in priority
C16_OncePerLink ==
    (last.op = "apply_rules" /\ last.rules # <<>>)
    => LET rules == last.rules
           articles == last.articles
           ret == last.ret
           link(a) == IF "link" \in DOMAIN a THEN a.link ELSE None
           matching(a) == {i \in DOMAIN rules :
                              rules[i].is_active /\ _evaluate_rule(a, rules[i])}
       IN  \A j \in DOMAIN articles :
              matching(articles[j]) # {}
              => \E k \in DOMAIN ret :
                    /\ link(ret[k]) = link(articles[j])
                    /\ \A k2 \in DOMAIN ret :
                          link(ret[k2]) = link(articles[j]) => k2 = k
                    /\ \E j2 \in DOMAIN articles :
                          \E i \in matching(articles[j2]) :
                             /\ link(articles[j2]) = link(articles[j])
                             /\ DOMAIN ret[k] = DOMAIN articles[j2]
                                   \cup {"matched_rule", "filter_priority"}
                             /\ \A key \in DOMAIN articles[j2] :
                                   ret[k][key] = articles[j2][key]
                             /\ ret[k].matched_rule = rules[i].name
                             /\ ret[k].filter_priority = rules[i].priority
                             /\ \A i2 \in matching(articles[j2]) :
                                   rules[i2].priority <= rules[i].priority

\* rule B (priority 3) declared before rule A (priority 5), both matching the one
\* record: one copy, tagged with A
C16_Witness ==
    /\ last.op = "apply_rules"
    /\ last.rules = <<RuleB, RuleA>>
    /\ last.articles = <<A2>>
    /\ Len(last.ret) = 1
    /\ last.ret[1].matched_rule = "A"
    /\ last.ret[1].filter_priority = 5

----------------------------------------------------------------------------
(* C17 *)

\* C17: apply_rules leaves inactive rules out and goes through the active ones by
\* descending priority, rules of one priority in the order of their declaration; its
\* output lists, rule after rule in that order and within a rule in input order, the
\* copies of the records that match the rule and whose link no earlier entry has
C17_OutputOrder ==
    (last.op = "apply_rules" /\ last.rules # <<>>)
    => LET rules == last.rules
           articles == last.articles
           ret == last.ret
           link(a) == IF "link" \in DOMAIN a THEN a.link ELSE None
           \* rule i is gone through before rule i2
           before(i, i2) ==
               \/ rules[i].priority > rules[i2].priority
               \/ rules[i].priority = rules[i2].priority /\ i < i2
           hits == {p \in (DOMAIN rules) \X (DOMAIN articles) :
                       rules[p[1]].is_active /\ _evaluate_rule(articles[p[2]], rules[p[1]])}
           earlier(p, q) == before(p[1], q[1]) \/ (p[1] = q[1] /\ p[2] < q[2])
           emitted == {p \in hits :
                          \A q \in hits :
                             earlier(q, p) => link(articles[q[2]]) # link(articles[p[2]])}
           position(p) == 1 + Cardinality({q \in emitted : earlier(q, p)})
       IN  /\ Len(ret) = Cardinality(emitted)
           /\ \A p \in emitted :
                 /\ ret[position(p)].matched_rule = rules[p[1]].name
                 /\ ret[position(p)].filter_priority = rules[p[1]].priority
                 /\ \A key \in DOMAIN articles[p[2]] :
                       ret[position(p)][key] = articles[p[2]][key]

\* rule B (priority 3) declared before rule C (priority 5): the second record, which
\* matches C, comes out before the first, which matches B only
C17_Witness ==
    /\ last.op = "apply_rules"
    /\ last.rules = <<RuleB, RuleC>>
    /\ last.articles = <<A2, A3>>
    /\ Len(last.ret) = 2
    /\ last.ret[1].matched_rule = "C" /\ last.ret[1].title = T3
    /\ last.ret[2].matched_rule = "B" /\ last.ret[2].title = T2

----------------------------------------------------------------------------
(* C18 *)

\* C18 as stated: the result a run returns has success = FALSE exactly when its
\* error list is not empty, and a run without errors in which the financial data of
\* a company could not be got has recorded a warning
C18_Original ==
    [][(pc = "commit" /\ pc' = "done")
       => /\ results'.success = (results'.errors = <<>>)
          /\ (/\ results'.errors = <<>>
              /\ \E c \in DOMAIN financial_data : financial_data[c] = "error")
             => results'.warnings # <<>>]_vars

\* C18: the result a run returns has success = FALSE exactly when its error list is
\* not empty; the run that found nothing new has no error; a run that went through
\* Step 5 has the one error "Failed to send email" exactly when the mail was not
\* sent; a run that sent the mail and left a new article out of the ledger has the
\* warning of the partial commit and success = TRUE; Step 1 and Step 4 add no error,
\* and Step 4 adds no warning either: a failed look-up shows in financial_data_count only
C18_SuccessIffNoErrors ==
    [][/\ (pc # "done" /\ pc' = "done")
          => /\ results'.success = (results'.errors = <<>>)
             /\ pc = "dedup" => results'.errors = <<>>
             /\ pc = "commit"
                => /\ results'.errors = IF results'.email_sent THEN <<>>
                                        ELSE <<"Failed to send email">>
                   /\ (/\ results'.email_sent
                       /\ ~(HashesOf(new_articles) \subseteq DOMAIN ledger'))
                      => /\ \E i \in DOMAIN results'.warnings :
                               results'.warnings[i]
                                  = "Failed to mark some articles as processed"
                         /\ results'.success
       /\ (pc = "fetch" /\ pc' = "filter") => results'.errors = results.errors
       /\ (pc = "enrich" /\ pc' = "notify")
          => /\ results'.errors = results.errors
             /\ results'.warnings = results.warnings]_vars

\* a run with the warning of Step 1 and the warning of the partial commit, and no
\* financial data, returns success = TRUE
C18_Witness ==
    /\ pc = "done"
    /\ results.success
    /\ results.errors = <<>>
    /\ results.warnings = <<"RSS database had insertion errors",
                            "Failed to mark some articles as processed">>
    /\ results.new_articles_count > 0
    /\ results.financial_data_count = 0
    /\ ~(HashesOf(new_articles) \subseteq DOMAIN ledger)

----------------------------------------------------------------------------
(* C19 *)

\* C19: under the scheduler at most one thread is inside run_processor at any time
C19_AtMostOneRun == Cardinality(Running) <= 1

----------------------------------------------------------------------------
(* C20 *)

\* C20: within a run the position moves from each stage to the next one of FETCH,
\* FILTER, DEDUP, ENRICH, NOTIFY, COMMIT, DONE (from DEDUP to DONE when nothing is
\* new), so no stage is entered twice or before its predecessor has finished; from
\* ENRICH on the list of new articles does not change, the one step of NOTIFY puts
\* every new article into one delivered alert, and COMMIT writes rows of these
\* articles only
C20_StageOrder ==
    [][LET Stages == <<"fetch", "filter", "dedup", "enrich", "notify", "commit", "done">>
           Rank(p) == CHOOSE i \in DOMAIN Stages : Stages[i] = p
       IN  /\ (pc' # pc /\ pc' # "crashed")
               => \/ pc \in {"idle", "done", "crashed", "raised"} /\ pc' \in {"fetch", "raised"}
                  \/ /\ pc \in {"fetch", "filter", "dedup", "enrich", "notify", "commit"}
                     /\ \/ Rank(pc') = Rank(pc) + 1
                        \/ pc = "dedup" /\ pc' = "done" /\ new_articles' = <<>>
           /\ (pc \in {"enrich", "notify", "commit"} /\ pc' # "crashed")
              => new_articles' = new_articles
           /\ (pc = "notify" /\ pc' = "commit" /\ results'.email_sent)
              => /\ DOMAIN notified' = DOMAIN notified \cup HashesOf(new_articles)
                 /\ \A h \in DOMAIN notified' :
                       notified'[h] = (IF h \in DOMAIN notified THEN notified[h] ELSE 0)
                                      + (IF h \in HashesOf(new_articles) THEN 1 ELSE 0)
           /\ (pc = "notify" /\ pc' = "commit" /\ ~results'.email_sent)
              => notified' = notified
           /\ pc # "notify" => notified' = notified
           /\ (pc = "commit" /\ pc' = "done")
              => DOMAIN ledger' \subseteq DOMAIN ledger \cup HashesOf(new_articles)
           /\ pc \notin {"commit"} => ledger' = ledger]_vars

\* a run that went through all stages with two new articles of different
\* fingerprints: both were in the one alert and both are in the ledger
C20_Witness ==
    /\ pc = "done"
    /\ runs = 1
    /\ results.email_sent
    /\ Len(new_articles) = 2
    /\ Cardinality(HashesOf(new_articles)) = 2
    /\ \A h \in HashesOf(new_articles) : h \in DOMAIN notified /\ notified[h] = 1
    /\ HashesOf(new_articles) \subseteq DOMAIN ledger

----------------------------------------------------------------------------
(* C21 *)

\* C21: when the read of the ledger fails in DEDUP, every filtered article is taken
\* for new, the run goes on to ENRICH without an error, and NOTIFY gets all filtered
\* articles; and for every list of articles on which filter_new_articles raises,
\* get_new_articles_only returns the whole list
C21_FailOpen ==
    [][/\ (pc = "dedup" /\ pc' # "crashed" /\ ~dedup_read_ok')
          => /\ filtered_articles # <<>>
             /\ new_articles' = filtered_articles
             /\ pc' = "enrich"
             /\ results'.errors = <<>>
             /\ results'.new_articles_count = Len(filtered_articles)
       /\ (pc' = "notify" /\ ~dedup_read_ok') => new_articles' = filtered_articles'
       /\ pc = "dedup"
          => \A articles \in ApiBatches :
                \A processed_hashes \in SUBSET DOMAIN ledger :
                   filter_new_articles(articles, processed_hashes).raised
                   => get_new_articles_only(articles, processed_hashes) = articles]_vars

\* the read failed in a run whose filtered articles are all in the ledger: they
\* are at NOTIFY again
C21_Witness ==
    /\ pc = "notify"
    /\ ~dedup_read_ok
    /\ new_articles # <<>>
    /\ new_articles = filtered_articles
    /\ HashesOf(new_articles) \subseteq DOMAIN ledger
    /\ results.errors = <<>>

----------------------------------------------------------------------------
(* C22 *)

\* C22: a Step 1 whose fetch_stats report errors adds one warning and no error to
\* the result and hands the articles it retrieved to FILTER; FILTER and DEDUP follow
\* and add no error, and a run that then ends in DEDUP returns success = TRUE
C22_FetchFailureIsWarning ==
    [][/\ (pc = "fetch" /\ pc' # "crashed")
          => /\ pc' = "filter"
             /\ results'.errors = <<>>
             /\ results'.warnings
                   = IF fetch_stats'.errors > 0
                     THEN <<"RSS database had insertion errors">> ELSE <<>>
       /\ (pc = "filter" /\ pc' # "crashed")
          => /\ pc' = "dedup"
             /\ filtered_articles' = filter_awards_articles(all_articles)
             /\ results' = results
       /\ (pc = "dedup" /\ pc' # "crashed")
          => /\ pc' \in {"enrich", "done"}
             /\ results'.errors = <<>>
             /\ results'.warnings = results.warnings
             /\ pc' = "done" => results'.success]_vars

\* a Step 1 that reported errors and still retrieved articles, one of which FILTER
\* lets through
C22_Witness ==
    /\ pc = "dedup"
    /\ results.warnings = <<"RSS database had insertion errors">>
    /\ results.errors = <<>>
    /\ filtered_articles # <<>>

----------------------------------------------------------------------------
(* C23 *)

----------------------------------------------------------------------------
(* C24 *)

\* C24: no invocation of process_rss_awards raises to its caller: a run that has
\* ended returned a result record
C24_AlwaysReturns ==
    /\ pc # "raised"
    /\ pc = "done" => results # <<>>

----------------------------------------------------------------------------
(* C25 *)

\* C25: _match_condition with a regex condition returns whether the comparand, taken
\* as a pattern exactly as authored and compiled with IGNORECASE if and only if the
\* condition is not case sensitive, matches somewhere in the text of the field
C25_PatternAsAuthored ==
    (/\ last.op = "match"
     /\ last.condition.match_type = "regex"
     /\ ~RegexError(last.condition.value)
     /\ Get(last.article, last.condition.field, <<>>) # None)
    => last.ret = Search([pattern |-> last.condition.value,
                          flags |-> IF last.condition.case_sensitive
                                    THEN "0" ELSE "IGNORECASE"],
                         Get(last.article, last.condition.field, <<>>))

----------------------------------------------------------------------------
(* C26 *)

\* C26: for an active rule of two or more conditions, and for every condition at
\* position 2 or later whose operator is NOT, _evaluate_rule returns what it returns
\* for the rule without that condition
C26_LaterNotIgnored ==
    (last.op = "evaluate" /\ last.rule.is_active /\ Len(last.rule.conditions) >= 2)
    => \A k \in 2..Len(last.rule.conditions) :
          last.rule.conditions[k].operator = "not"
          => LET conditions == last.rule.conditions
                 without == SubSeq(conditions, 1, k - 1)
                            \o SubSeq(conditions, k + 1, Len(conditions))
             IN  last.ret = _evaluate_rule(last.article,
                                [last.rule EXCEPT !.conditions = without])

\* the title holds "award"; the rule is "title contains award" followed by NOT
\* "title contains award", and the verdict is TRUE
C26_Witness ==
    /\ last.op = "evaluate"
    /\ last.rule.is_active
    /\ last.rule.conditions = <<Condition("title", AwardWord, "contains", FALSE, "and"),
                                Condition("title", AwardWord, "contains", FALSE, "not")>>
    /\ last.article = A2
    /\ last.ret = TRUE

----------------------------------------------------------------------------
(* C27 *)

\* C27: the output of apply_rules for a non-empty list of rules holds no two records
\* of one link value, a missing link being the value None; of the input records of
\* one link value that match an active rule, the one emitted is the first in the
\* order of the rules (priority descending, then declaration) and then of the input
C27_OnePerLinkValue ==
    (last.op = "apply_rules" /\ last.rules # <<>>)
    => LET rules == last.rules
           articles == last.articles
           ret == last.ret
           value(a) == IF "link" \in DOMAIN a THEN a.link ELSE None
           hit(i, j) == rules[i].is_active /\ _evaluate_rule(articles[j], rules[i])
           ahead(i, j, i2, j2) ==
               \/ rules[i].priority > rules[i2].priority
               \/ rules[i].priority = rules[i2].priority /\ i < i2
               \/ i = i2 /\ j < j2
       IN  /\ \A k, k2 \in DOMAIN ret : value(ret[k]) = value(ret[k2]) => k = k2
           /\ \A i \in DOMAIN rules, j \in DOMAIN articles :
                 (/\ hit(i, j)
                  /\ \A i2 \in DOMAIN rules, j2 \in DOMAIN articles :
                        (hit(i2, j2) /\ value(articles[j2]) = value(articles[j]))
                        => ~ahead(i2, j2, i, j))
                 => \E k \in DOMAIN ret :
                       /\ DOMAIN ret[k] = DOMAIN articles[j]
                                            \cup {"matched_rule", "filter_priority"}
                       /\ ret[k].matched_rule = rules[i].name
                       /\ \A key \in DOMAIN articles[j] : ret[k][key] = articles[j][key]
           /\ \A k \in DOMAIN ret :
                 \E i \in DOMAIN rules, j \in DOMAIN articles :
                    hit(i, j) /\ value(articles[j]) = value(ret[k])

\* two different records without a link, both matched by the one rule: the
\* first is emitted, the second is not
C27_Witness ==
    /\ last.op = "apply_rules"
    /\ last.rules = <<RuleA>>
    /\ last.articles = <<ANoLinkT2, ANoLinkT1>>
    /\ Len(last.ret) = 1
    /\ last.ret[1].title = T2
    /\ "link" \notin DOMAIN last.ret[1]

----------------------------------------------------------------------------
(* C28 *)

\* C28: apply_rules with an empty list of rules returns its input as it is, and with
\* a non-empty list of rules that are all inactive it returns the empty list
C28_EmptyAndInactive ==
    last.op = "apply_rules"
    => /\ last.rules = <<>> => last.ret = last.articles
       /\ (/\ last.rules # <<>>
           /\ \A i \in DOMAIN last.rules : ~last.rules[i].is_active)
          => last.ret = <<>>

\* no rule, two records: both come back, without annotation
C28_Witness ==
    /\ last.op = "apply_rules"
    /\ last.rules = <<>>
    /\ last.articles = <<A2, A3>>
    /\ last.ret = <<A2, A3>>
    /\ "matched_rule" \notin DOMAIN last.ret[1]

----------------------------------------------------------------------------
(* C29 *)

\* C29: when Step 3 finds no new article the run returns from there with
\* success = TRUE, email_sent = FALSE and no error; no company is looked up, no
\* alert is delivered, and the ledger is as it was when the run started
C29_NothingNew ==
    [][(pc = "dedup" /\ pc' # "crashed" /\ new_articles' = <<>>)
       => /\ pc' = "done"
          /\ results'.success
          /\ ~results'.email_sent
          /\ results'.errors = <<>>
          /\ results'.new_articles_count = 0
          /\ results'.financial_data_count = 0
          /\ lookups' = <<>>
          /\ notified' = notified
          /\ ledger' = ledger
          /\ DOMAIN ledger' = DOMAIN ledger0]_vars

\* the second run filters an article that the first run has put into the ledger,
\* and ends without a mail
C29_Witness ==
    /\ pc = "done"
    /\ runs = 2
    /\ filtered_articles # <<>>
    /\ new_articles = <<>>
    /\ results.success
    /\ ~results.email_sent
    /\ HashesOf(filtered_articles) \subseteq DOMAIN ledger
    /\ DOMAIN ledger = DOMAIN ledger0

----------------------------------------------------------------------------
(* C30 *)

\* C30: the heartbeat thread enters run_processor only if the system was suspended
\* since the thread last went through its loop
C30_CatchUpOnlyAfterSuspend ==
    [][(thread["heartbeat"].pc = "sleep" /\ thread'["heartbeat"].pc = "run")
       => suspended]_vars

====
